---- MODULE Spec2Model ----
(***************************************************************************)
(* Model of start.py: a static file server.  serve_static(port, directory) *)
(* changes the working directory, constructs a socketserver.TCPServer with *)
(* http.server.SimpleHTTPRequestHandler inside a `with` block, prints a    *)
(* status line and runs serve_forever() until a KeyboardInterrupt.         *)
(*                                                                         *)
(* The process is single threaded.  pc is the position of its only thread: *)
(*   "start"      serve_static called, before os.chdir         (line 9)    *)
(*   "chdir_done" after os.chdir, before TCPServer(...)        (line 13)   *)
(*   "bound"      inside the with block, before the print      (line 14)   *)
(*   "serving"    inside serve_forever, waiting in select      (line 16)   *)
(*   "handling"   a connection is accepted, handler running    (line 16)   *)
(*   "responded"  handler wrote its response, before the close (line 16)   *)
(*   "caught"     inside except KeyboardInterrupt, before print (line 18)  *)
(*   "unwinding"  leaving the with block (normally or by exception)        *)
(*   "terminated" the process has exited                                   *)
(* The interrupt signal is asynchronous: it raises KeyboardInterrupt at    *)
(* whatever position the thread is in.                                     *)
(***************************************************************************)
EXTENDS Integers, Sequences, FiniteSets, TLC

\* ---------------------------------------------------------------- bounds
\* Total number of client connections made during one run.
MaxConnects == 2

\* ------------------------------------------------------- program constants
DefaultPort == 8000
DefaultDirectory == "."
ServingLine == "Serving static files"
ShutdownLine == "Shutting down the server."

\* ------------------------------------------------------------ environment
\* Directory the process is launched from.
LaunchDir == "/home/launch"
\* Directories that exist and can be entered.
AccessibleDirs == {"/home/launch", "/srv/site"}
\* Directory arguments tried: default, a valid one, a missing one, a
\* directory without search permission.
DirArgs == {<<>>, <<"/srv/site">>, <<"/nonexistent">>, <<"/root/private">>}
PortArgs == {<<>>, <<8080>>}
Ports == {8000, 8080}
Clients == {"c1", "c2"}
\* Request paths: the root, files, and a path that exists nowhere.
Paths == {"/", "index.html", "a.css", "start.py", "nope.txt"}
NoFile == "<absent>"
NoClient == "<none>"

\* Contents of the file system (regular files only).
FileAt(dir, name) ==
    IF dir = "/srv/site" /\ name = "index.html" THEN "site-index"
    ELSE IF dir = "/srv/site" /\ name = "a.css" THEN "site-css"
    ELSE IF dir = "/home/launch" /\ name = "a.css" THEN "launch-css"
    ELSE IF dir = "/home/launch" /\ name = "start.py" THEN "launch-py"
    ELSE NoFile

FileExists(dir, name) == FileAt(dir, name) # NoFile

VARIABLES
    port,        \* serve_static parameter
    directory,   \* serve_static parameter
    portsInUse,  \* ports another process has bound
    cwd,         \* working directory of the process
    pc,          \* position of the thread
    sock,        \* listening socket: "none", "listening", "closed"
    conn,        \* state of each client's connection
    reqPath,     \* path each client asks for
    cur,         \* the connection the handler is running for
    log,         \* responses written, in order
    stdout,      \* lines printed
    exc,         \* exception in flight / exit reason
    sigAt,       \* history: where interrupts were delivered
    chdirCalls,  \* history: number of os.chdir calls
    bindCalls,   \* history: number of bind attempts
    connects     \* history: number of client connections

vars == <<port, directory, portsInUse, cwd, pc, sock, conn, reqPath, cur,
          log, stdout, exc, sigAt, chdirCalls, bindCalls, connects>>

\* ---------------------------------------------------------- pure helpers

\* argparse with defaults: an absent flag takes its default.
ParsePort(a) == IF a = <<>> THEN DefaultPort ELSE a[1]
ParseDirectory(a) == IF a = <<>> THEN DefaultDirectory ELSE a[1]

\* Path resolution done by os.chdir: "." is the current directory,
\* the other arguments are absolute.
Resolve(base, d) == IF d = "." THEN base ELSE d

\* os.chdir succeeds only for an existing, accessible directory.
Accessible(path) == path \in AccessibleDirs

\* Variant: the handler resolves against the directory of the launch.
HandlerDirectoryAtLaunch == LaunchDir

\* SimpleHTTPRequestHandler serves relative to os.getcwd().
HandlerDirectory == cwd

\* Variant: a missing file is answered with an empty 200 response.
send_head_no404(dir, path) ==
    IF path = "/"
    THEN IF FileExists(dir, "index.html")
         THEN [status |-> 200, body |-> FileAt(dir, "index.html")]
         ELSE [status |-> 200, body |-> "<listing>"]
    ELSE [status |-> 200, body |-> IF FileExists(dir, path)
                                   THEN FileAt(dir, path) ELSE ""]

\* SimpleHTTPRequestHandler.send_head for a GET: a directory is answered
\* with its index.html when there is one and with a listing otherwise, a
\* regular file with its bytes, anything else with 404.
send_head(dir, path) ==
    IF path = "/"
    THEN IF FileExists(dir, "index.html")
         THEN [status |-> 200, body |-> FileAt(dir, "index.html")]
         ELSE [status |-> 200, body |-> "<listing>"]
    ELSE IF FileExists(dir, path)
         THEN [status |-> 200, body |-> FileAt(dir, path)]
         ELSE [status |-> 404, body |-> "File not found"]

\* Variant: the accepted connection is left open.
shutdown_request_leak(cs, c) == cs

\* BaseServer.shutdown_request: close the accepted connection.
shutdown_request(cs, c) == [cs EXCEPT ![c] = "closed"]

\* TCPServer.server_close: close the listening socket; connections still
\* waiting in its backlog are reset by the kernel.
server_close(cs) == [c \in Clients |-> IF cs[c] = "queued" THEN "reset" ELSE cs[c]]

\* Variant: no except clause around serve_forever.
InTryNever(p) == FALSE

\* The try block of serve_static covers exactly the serve_forever call.
InTry(p) == p \in {"serving", "handling", "responded"}

\* ------------------------------------------------------------------ Init
Init ==
    /\ \E pa \in PortArgs, da \in DirArgs :
          /\ port = ParsePort(pa)
          /\ directory = ParseDirectory(da)
    /\ portsInUse \in SUBSET Ports
    /\ cwd = LaunchDir
    /\ pc = "start"
    /\ sock = "none"
    /\ conn = [c \in Clients |-> "none"]
    /\ reqPath = [c \in Clients |-> "/"]
    /\ cur = NoClient
    /\ log = <<>>
    /\ stdout = <<>>
    /\ exc = "none"
    /\ sigAt = {}
    /\ chdirCalls = 0
    /\ bindCalls = 0
    /\ connects = 0

\* --------------------------------------------------------------- actions

\* Variant: a failed directory change is ignored and startup goes on.
ChdirIgnoringFailure ==
    /\ pc = "start"
    /\ chdirCalls' = chdirCalls + 1
    /\ cwd' = IF Accessible(Resolve(cwd, directory))
              THEN Resolve(cwd, directory) ELSE cwd
    /\ pc' = "chdir_done"
    /\ UNCHANGED <<port, directory, portsInUse, sock, conn, reqPath, cur,
                   log, stdout, exc, sigAt, bindCalls, connects>>

\* os.chdir(directory): raises OSError for a bad directory, which nothing
\* catches, so the process exits.
Chdir ==
    /\ pc = "start"
    /\ chdirCalls' = chdirCalls + 1
    /\ IF Accessible(Resolve(cwd, directory))
       THEN /\ cwd' = Resolve(cwd, directory)
            /\ pc' = "chdir_done"
            /\ exc' = exc
       ELSE /\ cwd' = cwd
            /\ pc' = "terminated"
            /\ exc' = "OSError"
    /\ UNCHANGED <<port, directory, portsInUse, sock, conn, reqPath, cur,
                   log, stdout, sigAt, bindCalls, connects>>

\* Variant: the bind succeeds on a port that is already taken.
BindSharingPort ==
    /\ pc = "chdir_done"
    /\ bindCalls' = bindCalls + 1
    /\ sock' = "listening"
    /\ pc' = "bound"
    /\ UNCHANGED <<port, directory, portsInUse, cwd, conn, reqPath, cur,
                   log, stdout, exc, sigAt, chdirCalls, connects>>

\* Variant: a failed bind restores the working directory of the launch.
BindRestoringCwd ==
    /\ pc = "chdir_done"
    /\ bindCalls' = bindCalls + 1
    /\ IF port \notin portsInUse
       THEN /\ sock' = "listening"
            /\ pc' = "bound"
            /\ exc' = exc
            /\ cwd' = cwd
       ELSE /\ sock' = "closed"
            /\ pc' = "terminated"
            /\ exc' = "OSError"
            /\ cwd' = LaunchDir
    /\ UNCHANGED <<port, directory, portsInUse, conn, reqPath, cur,
                   log, stdout, sigAt, chdirCalls, connects>>

\* socketserver.TCPServer(("", port), handler): creates the socket, binds
\* and listens.  When the bind fails the constructor closes the socket and
\* re-raises; the with block is never entered.
Bind ==
    /\ pc = "chdir_done"
    /\ bindCalls' = bindCalls + 1
    /\ IF port \notin portsInUse
       THEN /\ sock' = "listening"
            /\ pc' = "bound"
            /\ exc' = exc
       ELSE /\ sock' = "closed"
            /\ pc' = "terminated"
            /\ exc' = "OSError"
    /\ UNCHANGED <<port, directory, portsInUse, cwd, conn, reqPath, cur,
                   log, stdout, sigAt, chdirCalls, connects>>

\* print(f"Serving static files from ...") and entry into serve_forever.
PrintServing ==
    /\ pc = "bound"
    /\ stdout' = Append(stdout, ServingLine)
    /\ pc' = "serving"
    /\ UNCHANGED <<port, directory, portsInUse, cwd, sock, conn, reqPath,
                   cur, log, exc, sigAt, chdirCalls, bindCalls, connects>>

\* A client connects; the kernel completes the handshake into the backlog
\* of the listening socket.
Connect(c, p) ==
    /\ sock = "listening"
    /\ conn[c] \in {"none", "closed", "reset"}
    /\ connects < MaxConnects
    /\ conn' = [conn EXCEPT ![c] = "queued"]
    /\ reqPath' = [reqPath EXCEPT ![c] = p]
    /\ connects' = connects + 1
    /\ UNCHANGED <<port, directory, portsInUse, cwd, pc, sock, cur, log,
                   stdout, exc, sigAt, chdirCalls, bindCalls>>

\* Variant: connections are accepted while a handler is still running
\* (a threading server).
AcceptThreaded(c) ==
    /\ pc \in {"serving", "handling", "responded"}
    /\ conn[c] = "queued"
    /\ conn' = [conn EXCEPT ![c] = "accepted"]
    /\ cur' = c
    /\ pc' = "handling"
    /\ UNCHANGED <<port, directory, portsInUse, cwd, sock, reqPath, log,
                   stdout, exc, sigAt, chdirCalls, bindCalls, connects>>

\* serve_forever: select reports the socket readable and
\* _handle_request_noblock accepts one connection.  The loop only comes
\* back to select after the handler of the previous connection returned.
Accept(c) ==
    /\ pc = "serving"
    /\ conn[c] = "queued"
    /\ conn' = [conn EXCEPT ![c] = "accepted"]
    /\ cur' = c
    /\ pc' = "handling"
    /\ UNCHANGED <<port, directory, portsInUse, cwd, sock, reqPath, log,
                   stdout, exc, sigAt, chdirCalls, bindCalls, connects>>

\* The handler answers the GET.
Respond ==
    /\ pc = "handling"
    /\ LET r == send_head(HandlerDirectory, reqPath[cur])
       IN log' = Append(log, [client |-> cur, path |-> reqPath[cur],
                              status |-> r.status, body |-> r.body])
    /\ pc' = "responded"
    /\ UNCHANGED <<port, directory, portsInUse, cwd, sock, conn, reqPath,
                   cur, stdout, exc, sigAt, chdirCalls, bindCalls, connects>>

\* process_request returns; shutdown_request closes the connection.
Finish ==
    /\ pc = "responded"
    /\ conn' = shutdown_request(conn, cur)
    /\ cur' = NoClient
    /\ pc' = "serving"
    /\ UNCHANGED <<port, directory, portsInUse, cwd, sock, reqPath, log,
                   stdout, exc, sigAt, chdirCalls, bindCalls, connects>>

\* The handler raises an Exception (the client went away):
\* _handle_request_noblock reports it, closes the connection and the loop
\* goes on.
HandlerException ==
    /\ pc = "handling"
    /\ conn' = shutdown_request(conn, cur)
    /\ cur' = NoClient
    /\ pc' = "serving"
    /\ UNCHANGED <<port, directory, portsInUse, cwd, sock, reqPath, log,
                   stdout, exc, sigAt, chdirCalls, bindCalls, connects>>

\* The interrupt signal: KeyboardInterrupt is raised where the thread is.
\* Inside the handler, the bare except of _handle_request_noblock closes
\* the connection and re-raises.  Inside the try block it is caught by
\* except KeyboardInterrupt; anywhere else nothing catches it: inside the
\* with block it leaves through __exit__, before it the process exits.
Interrupt ==
    /\ pc \in {"start", "chdir_done", "bound", "serving", "handling",
               "responded", "caught"}
    /\ sigAt' = sigAt \cup {[at |-> pc, client |-> cur]}
    /\ conn' = IF pc \in {"handling", "responded"}
               THEN shutdown_request(conn, cur) ELSE conn
    /\ cur' = NoClient
    /\ IF InTry(pc)
       THEN /\ pc' = "caught"
            /\ exc' = exc
       ELSE IF pc \in {"bound", "caught"}
       THEN /\ pc' = "unwinding"
            /\ exc' = "KeyboardInterrupt"
       ELSE /\ pc' = "terminated"
            /\ exc' = "KeyboardInterrupt"
    /\ UNCHANGED <<port, directory, portsInUse, cwd, sock, reqPath, log,
                   stdout, chdirCalls, bindCalls, connects>>

\* Any other exception inside the with block (the print fails on a closed
\* stdout, select fails): except KeyboardInterrupt does not catch it.
OtherException ==
    /\ pc \in {"bound", "serving"}
    /\ pc' = "unwinding"
    /\ exc' = "OSError"
    /\ UNCHANGED <<port, directory, portsInUse, cwd, sock, conn, reqPath,
                   cur, log, stdout, sigAt, chdirCalls, bindCalls, connects>>

\* Variant: after the notice the serve loop is entered again.
PrintShutdownAndResume ==
    /\ pc = "caught"
    /\ stdout' = Append(stdout, ShutdownLine)
    /\ pc' = "serving"
    /\ UNCHANGED <<port, directory, portsInUse, cwd, sock, conn, reqPath,
                   cur, log, exc, sigAt, chdirCalls, bindCalls, connects>>

\* except KeyboardInterrupt: print("\nShutting down the server.")
PrintShutdown ==
    /\ pc = "caught"
    /\ stdout' = Append(stdout, ShutdownLine)
    /\ pc' = "unwinding"
    /\ UNCHANGED <<port, directory, portsInUse, cwd, sock, conn, reqPath,
                   cur, log, exc, sigAt, chdirCalls, bindCalls, connects>>

\* Variant: the server is created without a with block, nothing closes it.
WithExitNoClose ==
    /\ pc = "unwinding"
    /\ pc' = "terminated"
    /\ UNCHANGED <<port, directory, portsInUse, cwd, sock, conn, reqPath,
                   cur, log, stdout, exc, sigAt, chdirCalls, bindCalls,
                   connects>>

\* End of the with block: TCPServer.__exit__ calls server_close, then
\* serve_static returns or raises and the process exits.
WithExit ==
    /\ pc = "unwinding"
    /\ sock' = "closed"
    /\ conn' = server_close(conn)
    /\ pc' = "terminated"
    /\ UNCHANGED <<port, directory, portsInUse, cwd, reqPath, cur, log,
                   stdout, exc, sigAt, chdirCalls, bindCalls, connects>>

Next ==
    \/ Chdir
    \/ Bind
    \/ PrintServing
    \/ \E c \in Clients, p \in Paths : Connect(c, p)
    \/ \E c \in Clients : Accept(c)
    \/ Respond
    \/ Finish
    \/ HandlerException
    \/ Interrupt
    \/ OtherException
    \/ PrintShutdown
    \/ WithExit

Spec == Init /\ [][Next]_vars

\* The thread keeps running: a step of the program that is enabled is
\* eventually taken.
FairSpec == Spec /\ WF_vars(PrintShutdown) /\ WF_vars(WithExit)

\* ------------------------------------------------------------ properties

Terminated == pc = "terminated"
Printed(line) == \E i \in DOMAIN stdout : stdout[i] = line
\* The directory the server was asked to serve, as an absolute path.
ServedDir == Resolve(LaunchDir, directory)
BadDirectory == ServedDir \notin AccessibleDirs
PortTaken == port \in portsInUse
\* An interrupt was delivered while the listening socket was bound.
SigBound == \E s \in sigAt :
               s.at \in {"bound", "serving", "handling", "responded", "caught"}
\* An interrupt was delivered while serve_forever was running.
SigLoop == \E s \in sigAt : s.at \in {"serving", "handling", "responded"}
\* A further interrupt was delivered inside the except clause, before the
\* notice was printed.
SigInExcept == \E s \in sigAt : s.at = "caught"
Accepted == {c \in Clients : conn[c] = "accepted"}
\* Lifecycle: 0 not started, 1 serving, 2 shutting down, 3 terminated.
Phase(p) == IF p \in {"start", "chdir_done"} THEN 0
            ELSE IF p \in {"bound", "serving", "handling", "responded"} THEN 1
            ELSE IF p \in {"caught", "unwinding"} THEN 2
            ELSE 3

\* C1 (as stated): whenever an interrupt is delivered to an instance whose
\* listening socket is bound, the process eventually terminates and the
\* shutdown notice has been printed before it terminates.
C1_AnyBoundInterruptPrintsNotice ==
    /\ [](SigBound => <>Terminated)
    /\ [](SigBound /\ Terminated => Printed(ShutdownLine))

\* C1 (amended): whenever an interrupt is delivered while serve_forever is
\* running, the process eventually terminates, and unless a further
\* interrupt arrives inside the except clause the shutdown notice has been
\* printed before it terminates.
C1_ServeLoopInterruptPrintsNotice ==
    /\ [](SigLoop => <>Terminated)
    /\ [](SigLoop /\ ~SigInExcept /\ Terminated => Printed(ShutdownLine))

C1_Witness ==
    /\ Terminated
    /\ SigLoop
    /\ Printed(ShutdownLine)

\* C2: with a directory that does not exist or cannot be entered, the
\* directory change fails with an OS error that ends the process, and no
\* bind is ever attempted and no socket ever exists.
C2_BadDirectoryNeverBinds ==
    BadDirectory =>
        /\ bindCalls = 0
        /\ sock = "none"
        /\ cwd = LaunchDir
        /\ chdirCalls > 0 => (Terminated /\ exc = "OSError")

C2_Witness ==
    /\ BadDirectory
    /\ chdirCalls = 1
    /\ Terminated

\* C3: with a port another process has bound, the bind fails with an OS
\* error that ends the process; this process never has a listening socket,
\* never prints the "Serving static files" line and never serves a request.
C3_TakenPortNeverListens ==
    PortTaken =>
        /\ sock # "listening"
        /\ ~Printed(ServingLine)
        /\ log = <<>>
        /\ \A c \in Clients : conn[c] = "none"
        /\ bindCalls > 0 => (Terminated /\ exc = "OSError" /\ sock = "closed")

C3_Witness ==
    /\ PortTaken
    /\ bindCalls = 1
    /\ Terminated

C6_MissingPathIs404AndServerGoesOn ==
    /\ \A i \in DOMAIN log :
          (log[i].path # "/" /\ ~FileExists(ServedDir, log[i].path))
              => log[i].status = 404
    /\ ((\E i \in DOMAIN log : log[i].status = 404) /\ sigAt = {} /\ exc = "none")
          => (pc \in {"serving", "handling", "responded"} /\ sock = "listening")

C6_Witness ==
    \E i, j \in DOMAIN log :
        /\ i < j
        /\ log[i].status = 404
        /\ log[i].path = "start.py"
        /\ log[j].status = 200

\* C7: the lifecycle only moves forward through not started, serving,
\* shutting down, terminated; a terminated process stays terminated; the
\* directory change and the bind are each attempted at most once.
C7_LifecycleForwardOnly ==
    [][ /\ Phase(pc') >= Phase(pc)
        /\ Terminated => pc' = "terminated"
        /\ chdirCalls' <= 1
        /\ bindCalls' <= 1 ]_vars

C7_Witness ==
    /\ Terminated
    /\ Printed(ServingLine)
    /\ Printed(ShutdownLine)
    /\ chdirCalls = 1
    /\ bindCalls = 1

\* C8: at most one accepted connection is being handled at any time, and a
\* connection is only accepted when no other accepted connection is open.
C8_OneRequestAtATime ==
    /\ [](Cardinality(Accepted) <= 1)
    /\ [](Accepted # {} <=> pc \in {"handling", "responded"})
    /\ [][ \A c \in Clients :
             (conn[c] # "accepted" /\ conn'[c] = "accepted") => Accepted = {} ]_vars

C8_Witness ==
    \E c, d \in Clients :
        /\ conn[c] = "accepted"
        /\ conn[d] = "queued"

\* C9: when the directory change succeeded and the bind then failed, the
\* working directory is the requested directory.
C9_CwdStaysChangedAfterBindFailure ==
    (Terminated /\ bindCalls = 1 /\ PortTaken) => cwd = ServedDir

C9_Witness ==
    /\ Terminated
    /\ bindCalls = 1
    /\ PortTaken
    /\ cwd = "/srv/site"
    /\ cwd # LaunchDir

====
